---- MODULE Spec2Model ----
(***************************************************************************)
(* scripts/add-error-logging.py: read a JavaScript file, insert the line   *)
(* '    await logRouteError(error, req).catch(() => {});' between the       *)
(* console.error line and the res.status line of every catch block, write  *)
(* the file back when the text changed, report the number of insertions.   *)
(*                                                                         *)
(* Text is a sequence of one-character strings; the regular expression and *)
(* re.sub are evaluated character by character.                            *)
(***************************************************************************)
EXTENDS Integers, Sequences, FiniteSets

(* ------------------------------ bounds -------------------------------- *)

\* largest number of blocks an input file is built from
MaxBlocks ==
    2

\* largest number of blocks of a file two concurrent invocations are run on
MaxBlocksConc ==
    2

\* number of bytes one flush of the write buffer hands to the file
\* (the buffer size of the io module, scaled down to the size of the inputs)
ChunkSize ==
    128

(* ------------------- literals of the pattern and the insertion -------- *)

\* r'  } catch \('
LitCatch ==
    <<" "," ","}"," ","c","a","t","c","h"," ","(">>

\* r'\) \{'
LitClose ==
    <<")"," ","{">>

\* r'    console\.error\('
LitConsole ==
    <<" "," "," "," ","c","o","n","s","o","l","e",".","e","r","r","o","r","(">>

\* r'    res\.status\('
LitRes ==
    <<" "," "," "," ","r","e","s",".","s","t","a","t","u","s","(">>

\* '    await logRouteError(error, req).catch(() => {});\n'
Inserted ==
    <<" "," "," "," ","a","w","a","i","t"," ","l","o","g","R","o","u","t","e","E","r","r","o","r","(","e","r","r","o","r",","," ","r","e","q",")",".","c","a","t","c","h","(","(",")"," ","=",">"," ","{","}",")",";","\n">>

MarkRoute ==
    <<"l","o","g","R","o","u","t","e","E","r","r","o","r">>

MarkCritical ==
    <<"l","o","g","C","r","i","t","i","c","a","l","E","r","r","o","r">>

\* the characters \s matches, among those the inputs contain
Whitespace ==
    {" ", "\n", "\r", "\t", "\f"}

(* ------------------------------ strings ------------------------------- *)

\* s[i : i + len(lit)] == lit
StartsWith(s, i, lit) ==
    /\ i >= 1
    /\ i + Len(lit) - 1 <= Len(s)
    /\ \A k \in 1..Len(lit) : s[i + k - 1] = lit[k]

\* lit in s
Contains(s, lit) ==
    \E k \in 1..(Len(s) - Len(lit) + 1) : StartsWith(s, k, lit)

\* s.find(c, i): the first index >= i holding c, 0 when there is none
Find(s, i, c) ==
    IF \E k \in i..Len(s) : s[k] = c
    THEN CHOOSE k \in i..Len(s) : s[k] = c /\ \A j \in i..(k - 1) : s[j] # c
    ELSE 0

\* the first index >= i that holds no whitespace, Len(s) + 1 when there is none
SkipSpace(s, i) ==
    IF \E k \in i..Len(s) : s[k] \notin Whitespace
    THEN CHOOSE k \in i..Len(s) :
             s[k] \notin Whitespace /\ \A j \in i..(k - 1) : s[j] \in Whitespace
    ELSE Len(s) + 1

(* --------------------------- the pattern ------------------------------ *)

NoMatch ==
    [start |-> 0, g2 |-> 0, g3 |-> 0, end |-> 0]

\* ConsoleRes with a pattern that lets other lines stand between the
\* console.error line and the res.status line
ConsoleResAnyGap(s, j) ==
    IF ~StartsWith(s, j, LitConsole) THEN 0
    ELSE LET a  == j + Len(LitConsole)
             nl == Find(s, a, "\n")
             ResAt(k) == s[k - 1] = "\n" /\ StartsWith(s, k, LitRes)
         IN  IF nl = 0 \/ nl = a THEN 0
             ELSE IF \E k \in (nl + 1)..Len(s) : ResAt(k)
             THEN CHOOSE k \in (nl + 1)..Len(s) :
                      ResAt(k) /\ \A x \in (nl + 1)..(k - 1) : ~ResAt(x)
             ELSE 0

\* (    console\.error\([^\n]+\n)(    res\.status\() tried at index j:
\* the index of group 3, 0 when the two lines are not there
ConsoleRes(s, j) ==
    IF ~StartsWith(s, j, LitConsole) THEN 0
    ELSE LET a  == j + Len(LitConsole)
             nl == Find(s, a, "\n")
         IN  IF nl = 0 \/ nl = a THEN 0
             ELSE IF StartsWith(s, nl + 1, LitRes) THEN nl + 1
             ELSE 0

\* the whole pattern tried at index i: the match (start, the first index of
\* groups 2 and 3, the index after the match) or NoMatch.  [^)]+ stops at the
\* first ')'; the greedy \s* gives back characters until a '\n' followed by
\* the rest of the pattern is found.
MatchAt(s, i) ==
    IF ~StartsWith(s, i, LitCatch) THEN NoMatch
    ELSE LET a == i + Len(LitCatch)
             k == Find(s, a, ")")
         IN  IF k = 0 \/ k = a THEN NoMatch
             ELSE IF ~StartsWith(s, k, LitClose) THEN NoMatch
             ELSE LET m == k + Len(LitClose)
                      w == SkipSpace(s, m)
                      cands == {n \in m..(w - 1) :
                                  s[n] = "\n" /\ ConsoleRes(s, n + 1) # 0}
                  IN  IF cands = {} THEN NoMatch
                      ELSE LET n == CHOOSE x \in cands : \A y \in cands : y <= x
                           IN  [start |-> i, g2 |-> n + 1,
                                g3 |-> ConsoleRes(s, n + 1),
                                end |-> ConsoleRes(s, n + 1) + Len(LitRes)]

\* re.finditer: the matches found scanning from index i, left to right, each
\* search resuming where the previous match ended
RECURSIVE FindIter(_, _)
FindIter(s, i) ==
    LET Hit(k) == MatchAt(s, k) # NoMatch
        k == IF \E x \in i..Len(s) : Hit(x)
             THEN CHOOSE x \in i..Len(s) : Hit(x) /\ \A j \in i..(x - 1) : ~Hit(j)
             ELSE 0
    IN  IF k = 0 THEN << >>
        ELSE <<MatchAt(s, k)>> \o FindIter(s, MatchAt(s, k).end)

\* the text of a match
Group0(s, m) ==
    SubSeq(s, m.start, m.end - 1)

\* Exempt without the test for logCriticalError
ExemptRouteOnly(s, m) ==
    Contains(Group0(s, m), MarkRoute)

\* the test of replacement(): logging already exists in the matched text
Exempt(s, m) ==
    \/ Contains(Group0(s, m), MarkRoute)
    \/ Contains(Group0(s, m), MarkCritical)

\* replacement with the new line put after the res.status( of the match
replacementAfter(s, m) ==
    IF Exempt(s, m) THEN Group0(s, m)
    ELSE SubSeq(s, m.start, m.g2 - 1) \o SubSeq(s, m.g2, m.g3 - 1)
           \o SubSeq(s, m.g3, m.end - 1) \o Inserted

\* replacement with the new line put before the console.error line
replacementBefore(s, m) ==
    IF Exempt(s, m) THEN Group0(s, m)
    ELSE SubSeq(s, m.start, m.g2 - 1) \o Inserted
           \o SubSeq(s, m.g2, m.g3 - 1) \o SubSeq(s, m.g3, m.end - 1)

\* replacement that leaves console_line out of the text it returns
replacementDrop(s, m) ==
    IF Exempt(s, m) THEN Group0(s, m)
    ELSE SubSeq(s, m.start, m.g2 - 1) \o Inserted
           \o SubSeq(s, m.g3, m.end - 1)

\* replacement(match): the text put in place of the match
replacement(s, m) ==
    IF Exempt(s, m) THEN Group0(s, m)
    ELSE SubSeq(s, m.start, m.g2 - 1) \o SubSeq(s, m.g2, m.g3 - 1)
           \o Inserted \o SubSeq(s, m.g3, m.end - 1)

\* Increment with the counter incremented before the test for logging
IncrementAlways(s, m) ==
    IF m = NoMatch THEN 0 ELSE 1

\* what replacement(match) adds to the nonlocal counter
Increment(s, m) ==
    IF Exempt(s, m) THEN 0 ELSE 1

\* re.sub(pattern, replacement, content): the text between the matches is
\* copied, every match is replaced by replacement(match); ms is the list of
\* matches not yet handled, i the index after the last one handled
RECURSIVE Assemble(_, _, _)
Assemble(s, ms, i) ==
    IF ms = << >> THEN SubSeq(s, i, Len(s))
    ELSE SubSeq(s, i, Head(ms).start - 1) \o replacement(s, Head(ms))
           \o Assemble(s, Tail(ms), Head(ms).end)

RECURSIVE Tally(_, _)
Tally(s, ms) ==
    IF ms = << >> THEN 0 ELSE Increment(s, Head(ms)) + Tally(s, Tail(ms))

ReSub(s) ==
    LET ms == FindIter(s, 1)
    IN  [text |-> Assemble(s, ms, 1), mods |-> Tally(s, ms)]

(* ------------------------- reading and writing ------------------------ *)

\* f.read() of a file opened with open(filepath, 'r'): universal newlines,
\* '\r\n' and a lone '\r' are read as '\n'
RECURSIVE Decode(_, _)
Decode(bytes, i) ==
    LET k == Find(bytes, i, "\r")
    IN  IF k = 0 THEN SubSeq(bytes, i, Len(bytes))
        ELSE SubSeq(bytes, i, k - 1) \o <<"\n">>
               \o Decode(bytes, IF k < Len(bytes) /\ bytes[k + 1] = "\n"
                                THEN k + 2 ELSE k + 1)

\* f.write(content) of a file opened with open(filepath, 'w'): every '\n'
\* is written as the line separator of the platform
RECURSIVE Encode(_, _, _)
Encode(text, i, sep) ==
    LET k == Find(text, i, "\n")
    IN  IF k = 0 THEN SubSeq(text, i, Len(text))
        ELSE SubSeq(text, i, k - 1) \o sep \o Encode(text, k + 1, sep)

\* os.linesep
LineSeps ==
    {<<"\n">>, <<"\r", "\n">>}

\* the bytes of the file after chunk is written at offset pos (a write past
\* the end of the file leaves a hole of NUL bytes)
WriteAt(bytes, pos, chunk) ==
    [k \in 1..(IF pos + Len(chunk) > Len(bytes) THEN pos + Len(chunk) ELSE Len(bytes)) |->
        IF k > pos /\ k <= pos + Len(chunk) THEN chunk[k - pos]
        ELSE IF k <= Len(bytes) THEN bytes[k]
        ELSE "NUL"]

(* ------------------------------ inputs -------------------------------- *)

\* '  } catch (e) {\n'
HdrLine ==
    <<" "," ","}"," ","c","a","t","c","h"," ","(","e",")"," ","{","\n">>

\* '  } catch (logRouteError) {\n'
HdrRouteLine ==
    <<" "," ","}"," ","c","a","t","c","h"," ","(","l","o","g","R","o","u","t","e","E","r","r","o","r",")"," ","{","\n">>

\* '    console.error(e);\n'
ConLine ==
    <<" "," "," "," ","c","o","n","s","o","l","e",".","e","r","r","o","r","(","e",")",";","\n">>

\* '    console.error(logCriticalError);\n'
ConCriticalLine ==
    <<" "," "," "," ","c","o","n","s","o","l","e",".","e","r","r","o","r","(","l","o","g","C","r","i","t","i","c","a","l","E","r","r","o","r",")",";","\n">>

\* '    res.status(500);\n'
ResLine ==
    <<" "," "," "," ","r","e","s",".","s","t","a","t","u","s","(","5","0","0",")",";","\n">>

BlankLine ==
    <<"\n">>

\* '    // c\n'
CmtLine ==
    <<" "," "," "," ","/","/"," ","c","\n">>

\* a catch header whose parameter list goes on in the next line
OpenHdr ==
    <<" "," ","}"," ","c","a","t","c","h"," ","(","e",",","\n">>

\* an empty line ending in carriage return, line feed
CrLfLine ==
    <<"\r","\n">>

\* a whole catch block of the shape the script looks for
OccBlock ==
    HdrLine \o ConLine \o ResLine

\* a catch block that already logs with logCriticalError
ExemptBlock ==
    HdrLine \o ConCriticalLine \o ResLine

\* a catch block with an empty line after the catch header
BlankBlock ==
    HdrLine \o BlankLine \o ConLine \o ResLine

\* the blocks input files are built from
Blocks ==
    << OccBlock,
       ExemptBlock,
       BlankBlock,
       HdrLine,
       ConLine \o ResLine,
       BlankLine,
       CrLfLine,
       HdrRouteLine,
       ConLine \o BlankLine \o ResLine,
       ConLine \o CmtLine \o ResLine,
       CmtLine,
       OpenHdr >>

\* the blocks the files of two concurrent invocations are built from
BlocksConc ==
    {k \in 1..Len(Blocks) :
        Blocks[k] \in {OccBlock, ExemptBlock, HdrLine, ConLine \o ResLine,
                       BlankLine, CrLfLine}}

RECURSIVE Flatten(_)
Flatten(bs) ==
    IF bs = << >> THEN << >> ELSE Blocks[Head(bs)] \o Flatten(Tail(bs))

\* the files built from at most n of the blocks ids
Files(ids, n) ==
    {Flatten(bs) : bs \in UNION {[1..k -> ids] : k \in 0..n}}

\* the files one invocation (and a second one after it) is run on
Inputs ==
    Files(1..Len(Blocks), MaxBlocks)

\* the files two concurrent invocations are run on
InputsConc ==
    Files(BlocksConc, MaxBlocksConc)

(* ------------------------------- state -------------------------------- *)

Procs ==
    {1, 2}

VARIABLES
    initial,           \* the bytes of the file before any invocation
    file,              \* the bytes of the file at filepath
    linesep,           \* os.linesep of the platform
    argc,              \* len(sys.argv) of each invocation
    pc,                \* where each invocation is
    content,           \* local of add_error_logging_to_file
    original_content,  \* local of add_error_logging_to_file
    modifications,     \* the counter replacement() increments
    count,             \* the value add_error_logging_to_file returned
    wbuf,              \* bytes handed to f.write() and not yet in the file
    wpos,              \* offset of the file object opened for writing
    opens,             \* the modes the invocation opened the file with
    seen,              \* the bytes f.read() has got from the file so far
    reads,             \* the number of read() calls that returned bytes
    out                \* what each invocation printed

vars ==
    <<initial, file, linesep, argc, pc, content, original_content, modifications,
      count, wbuf, wpos, opens, seen, reads, out>>

locals ==
    <<content, original_content, modifications, count, wbuf, wpos, opens,
      seen, reads, out>>

Fresh ==
    /\ content = [p \in Procs |-> << >>]
    /\ original_content = [p \in Procs |-> << >>]
    /\ modifications = [p \in Procs |-> 0]
    /\ count = [p \in Procs |-> 0]
    /\ wbuf = [p \in Procs |-> << >>]
    /\ wpos = [p \in Procs |-> 0]
    /\ opens = [p \in Procs |-> << >>]
    /\ seen = [p \in Procs |-> << >>]
    /\ reads = [p \in Procs |-> 0]
    /\ out = [p \in Procs |-> << >>]

\* one invocation, with or without the path argument; a second one may be
\* started once the first has exited with status 0
Init ==
    /\ initial \in Inputs
    /\ file = initial
    /\ linesep \in LineSeps
    /\ argc \in {[p \in Procs |-> IF p = 1 THEN n ELSE 2] : n \in {1, 2}}
    /\ pc = [p \in Procs |-> IF p = 1 THEN "main" ELSE "idle"]
    /\ Fresh

(* ------------------------------ actions ------------------------------- *)

\* Usage without the sys.exit(1)
UsageFallThrough(p) ==
    /\ pc[p] = "main"
    /\ argc[p] < 2
    /\ out' = [out EXCEPT ![p] = Append(@, <<"usage">>)]
    /\ pc' = [pc EXCEPT ![p] = "read"]
    /\ UNCHANGED <<initial, file, linesep, argc, content, original_content,
                   modifications, count, wbuf, wpos, opens, seen, reads>>

\* lines 49-51: no path argument
Usage(p) ==
    /\ pc[p] = "main"
    /\ argc[p] < 2
    /\ out' = [out EXCEPT ![p] = Append(@, <<"usage">>)]
    /\ pc' = [pc EXCEPT ![p] = "exit1"]
    /\ UNCHANGED <<initial, file, linesep, argc, content, original_content,
                   modifications, count, wbuf, wpos, opens, seen, reads>>

\* lines 53-54: the call of add_error_logging_to_file
Call(p) ==
    /\ pc[p] = "main"
    /\ argc[p] >= 2
    /\ pc' = [pc EXCEPT ![p] = "read"]
    /\ UNCHANGED <<initial, file, linesep, argc, locals>>

\* line 13: open(filepath, 'r')
OpenRead(p) ==
    /\ pc[p] = "read"
    /\ opens' = [opens EXCEPT ![p] = Append(@, "r")]
    /\ seen' = [seen EXCEPT ![p] = << >>]
    /\ reads' = [reads EXCEPT ![p] = 0]
    /\ pc' = [pc EXCEPT ![p] = "reading"]
    /\ UNCHANGED <<initial, file, linesep, argc, content, original_content,
                   modifications, count, wbuf, wpos, out>>

\* line 14: f.read() calls read() until it returns nothing; a call returns
\* the bytes the file holds past the offset reached
ReadChunk(p) ==
    /\ pc[p] = "reading"
    /\ Len(file) > Len(seen[p])
    /\ seen' = [seen EXCEPT ![p] = @ \o SubSeq(file, Len(@) + 1, Len(file))]
    /\ reads' = [reads EXCEPT ![p] = @ + 1]
    /\ UNCHANGED <<initial, file, linesep, argc, pc, content, original_content,
                   modifications, count, wbuf, wpos, opens, out>>

\* lines 14-17: read() returns nothing, the bytes got are decoded
ReadFile(p) ==
    /\ pc[p] = "reading"
    /\ Len(file) <= Len(seen[p])
    /\ content' = [content EXCEPT ![p] = Decode(seen[p], 1)]
    /\ original_content' = [original_content EXCEPT ![p] = Decode(seen[p], 1)]
    /\ modifications' = [modifications EXCEPT ![p] = 0]
    /\ pc' = [pc EXCEPT ![p] = "sub"]
    /\ UNCHANGED <<initial, file, linesep, argc, count, wbuf, wpos, opens,
                   seen, reads, out>>

\* line 13: open(filepath, 'r') raises, the exception ends the invocation
ReadError(p) ==
    /\ pc[p] = "read"
    /\ pc' = [pc EXCEPT ![p] = "crash"]
    /\ UNCHANGED <<initial, file, linesep, argc, locals>>

\* line 37
Substitute(p) ==
    /\ pc[p] = "sub"
    /\ LET r == ReSub(content[p])
       IN  /\ content' = [content EXCEPT ![p] = r.text]
           /\ modifications' = [modifications EXCEPT ![p] = r.mods]
    /\ pc' = [pc EXCEPT ![p] = "cmp"]
    /\ UNCHANGED <<initial, file, linesep, argc, original_content, count, wbuf, wpos,
                   opens, seen, reads, out>>

\* Changed with the comparison left out
ChangedAlways(p) ==
    TRUE

\* line 39: content != original_content
Changed(p) ==
    content[p] # original_content[p]

\* lines 39-41: open(filepath, 'w') truncates the file, f.write() fills the
\* buffer
OpenWrite(p) ==
    /\ pc[p] = "cmp"
    /\ Changed(p)
    /\ opens' = [opens EXCEPT ![p] = Append(@, "w")]
    /\ file' = << >>
    /\ wpos' = [wpos EXCEPT ![p] = 0]
    /\ wbuf' = [wbuf EXCEPT ![p] = Encode(content[p], 1, linesep)]
    /\ pc' = [pc EXCEPT ![p] = "write"]
    /\ UNCHANGED <<initial, linesep, argc, content, original_content, modifications,
                   count, seen, reads, out>>

\* line 40: open(filepath, 'w') raises, the file is as it was
OpenError(p) ==
    /\ pc[p] = "cmp"
    /\ Changed(p)
    /\ pc' = [pc EXCEPT ![p] = "crash"]
    /\ UNCHANGED <<initial, file, linesep, argc, locals>>

\* lines 40-41: the buffer is flushed to the file, a chunk at a time
Flush(p) ==
    /\ pc[p] = "write"
    /\ wbuf[p] # << >>
    /\ LET n == IF Len(wbuf[p]) < ChunkSize THEN Len(wbuf[p]) ELSE ChunkSize
       IN  /\ file' = WriteAt(file, wpos[p], SubSeq(wbuf[p], 1, n))
           /\ wpos' = [wpos EXCEPT ![p] = @ + n]
           /\ wbuf' = [wbuf EXCEPT ![p] = SubSeq(@, n + 1, Len(@))]
    /\ UNCHANGED <<initial, linesep, argc, pc, content, original_content,
                   modifications, count, opens, seen, reads, out>>

\* lines 40-41: a flush raises (disk full, I/O error), what was flushed
\* before stays in the file
WriteError(p) ==
    /\ pc[p] = "write"
    /\ wbuf[p] # << >>
    /\ pc' = [pc EXCEPT ![p] = "crash"]
    /\ UNCHANGED <<initial, file, linesep, argc, locals>>

\* lines 42-43: the file is closed, the summary printed, the count returned
Report(p) ==
    /\ pc[p] = "write"
    /\ wbuf[p] = << >>
    /\ out' = [out EXCEPT ![p] = Append(@, <<"added", modifications[p]>>)]
    /\ count' = [count EXCEPT ![p] = modifications[p]]
    /\ pc' = [pc EXCEPT ![p] = "total"]
    /\ UNCHANGED <<initial, file, linesep, argc, content, original_content,
                   modifications, wbuf, wpos, opens, seen, reads>>

\* lines 44-46
NoChange(p) ==
    /\ pc[p] = "cmp"
    /\ ~Changed(p)
    /\ out' = [out EXCEPT ![p] = Append(@, <<"nochange">>)]
    /\ count' = [count EXCEPT ![p] = 0]
    /\ pc' = [pc EXCEPT ![p] = "total"]
    /\ UNCHANGED <<initial, file, linesep, argc, content, original_content,
                   modifications, wbuf, wpos, opens, seen, reads>>

\* line 55, and the exit with status 0
PrintTotal(p) ==
    /\ pc[p] = "total"
    /\ out' = [out EXCEPT ![p] = Append(@, <<"total", count[p]>>)]
    /\ pc' = [pc EXCEPT ![p] = "exit0"]
    /\ UNCHANGED <<initial, file, linesep, argc, content, original_content,
                   modifications, count, wbuf, wpos, opens, seen, reads>>

\* the script is run again on the file the first run left
Rerun ==
    /\ pc[1] = "exit0"
    /\ pc[2] = "idle"
    /\ pc' = [pc EXCEPT ![2] = "main"]
    /\ UNCHANGED <<initial, file, linesep, argc, locals>>

Next ==
    \/ \E p \in Procs : Usage(p)
    \/ \E p \in Procs : Call(p)
    \/ \E p \in Procs : OpenRead(p)
    \/ \E p \in Procs : ReadChunk(p)
    \/ \E p \in Procs : ReadFile(p)
    \/ \E p \in Procs : ReadError(p)
    \/ \E p \in Procs : Substitute(p)
    \/ \E p \in Procs : OpenWrite(p)
    \/ \E p \in Procs : OpenError(p)
    \/ \E p \in Procs : Flush(p)
    \/ \E p \in Procs : WriteError(p)
    \/ \E p \in Procs : Report(p)
    \/ \E p \in Procs : NoChange(p)
    \/ \E p \in Procs : PrintTotal(p)
    \/ Rerun

Spec ==
    Init /\ [][Next]_vars

\* two invocations on the same file at the same time, no I/O error
InitConc ==
    /\ initial \in InputsConc
    /\ file = initial
    /\ linesep \in LineSeps
    /\ argc = [p \in Procs |-> 2]
    /\ pc = [p \in Procs |-> "main"]
    /\ Fresh

NextConc ==
    \/ \E p \in Procs : Call(p)
    \/ \E p \in Procs : OpenRead(p)
    \/ \E p \in Procs : ReadChunk(p)
    \/ \E p \in Procs : ReadFile(p)
    \/ \E p \in Procs : Substitute(p)
    \/ \E p \in Procs : OpenWrite(p)
    \/ \E p \in Procs : Flush(p)
    \/ \E p \in Procs : Report(p)
    \/ \E p \in Procs : NoChange(p)
    \/ \E p \in Procs : PrintTotal(p)

SpecConc ==
    InitConc /\ [][NextConc]_vars

(* --------------------------- properties ------------------------------- *)

\* the indices at which the three-line shape is found in s
Starts(s) ==
    {i \in 1..Len(s) : MatchAt(s, i) # NoMatch}

\* the occurrences: the shapes a left-to-right scan locates, none of them
\* beginning inside an occurrence located before it
Occurrences(s) ==
    LET S == Starts(s)
    IN  CHOOSE L \in SUBSET S :
            \A i \in S :
                i \in L <=> \A j \in L : j < i => MatchAt(s, j).end <= i

\* the occurrence at i holds one of the two exemption markers
Marked(s, i) ==
    LET span == SubSeq(s, i, MatchAt(s, i).end - 1)
    IN  Contains(span, MarkRoute) \/ Contains(span, MarkCritical)

ExemptOcc(s) ==
    {i \in Occurrences(s) : Marked(s, i)}

NonExemptOcc(s) ==
    {i \in Occurrences(s) : ~Marked(s, i)}

\* the logging line, as the documentation of the script gives it
LoggingLine ==
    <<" "," "," "," ">> \o
    <<"a","w","a","i","t"," ","l","o","g","R","o","u","t","e","E","r","r","o","r","(","e","r","r","o","r",","," ","r","e","q",")",".","c","a","t","c","h","(","(",")"," ","=",">"," ","{","}",")",";">> \o
    <<"\n">>

\* how far index i is moved by a logging line inserted in each occurrence
\* of N that begins before it
Shift(N, i) ==
    Len(LoggingLine) * Cardinality({j \in N : j < i})

HasOpened(p, mode) ==
    \E k \in 1..Len(opens[p]) : opens[p][k] = mode

CountOf(s, c) ==
    Cardinality({k \in 1..Len(s) : s[k] = c})

\* C1: a second run on the file the first run left reports 0 modifications,
\* does not write, and leaves the file and the text as the first run left them
C1_Idempotent ==
    pc[2] = "exit0" =>
        /\ modifications[2] = 0
        /\ count[2] = 0
        /\ opens[2] = <<"r">>
        /\ file = seen[2]
        /\ content[2] = content[1]
        /\ out[2] = << <<"nochange">>, <<"total", 0>> >>

\* the second run has ended after a first run that modified some occurrences
\* and skipped others
C1_Witness ==
    /\ pc[2] = "exit0"
    /\ count[1] >= 1
    /\ ExemptOcc(original_content[1]) # {}

\* C2: after the substitution every non-exempt occurrence has its header and
\* console.error line unchanged, directly followed by the logging line,
\* directly followed by its res.status( line
C2_InsertionCorrect ==
    \A p \in Procs : pc[p] = "cmp" =>
        LET s == original_content[p]
            t == content[p]
            N == NonExemptOcc(s)
        IN  \A i \in N :
                LET m   == MatchAt(s, i)
                    off == Shift(N, i)
                IN  /\ SubSeq(t, i + off, m.g3 - 1 + off) = SubSeq(s, i, m.g3 - 1)
                    /\ StartsWith(t, m.g3 + off, LoggingLine)
                    /\ StartsWith(t, m.g3 + off + Len(LoggingLine), LitRes)
                    /\ t[m.g3 + off - 1] = "\n"

C2_Witness ==
    \E p \in Procs :
        /\ pc[p] = "cmp"
        /\ Cardinality(NonExemptOcc(original_content[p])) >= 2

Settled(p) ==
    \/ pc[p] = "total"
    \/ pc[p] = "exit0" /\ \A q \in Procs \ {p} : pc[q] \in {"idle", "exit0"}

\* C4: the value returned and printed is the number of non-exempt
\* occurrences of the text read, and the text grew by one logging line for
\* each of them
C4_CountAccurate ==
    \A p \in Procs : Settled(p) =>
        /\ count[p] = Cardinality(NonExemptOcc(original_content[p]))
        /\ Len(content[p]) = Len(original_content[p]) + count[p] * Len(LoggingLine)
        /\ pc[p] = "exit0" => out[p][Len(out[p])] = <<"total", count[p]>>

\* a run ended on a file with an exempt occurrence and a non-exempt one
C4_Witness ==
    \E p \in Procs :
        /\ pc[p] = "exit0"
        /\ count[p] >= 1
        /\ ExemptOcc(original_content[p]) # {}

\* C5: the file is opened for writing only when the counter is positive and
\* the text changed; once the comparison is made the three are equivalent;
\* when no occurrence is non-exempt there is no write, the file is the one
\* read and the function returns 0
C5_WriteOnlyOnChange ==
    \A p \in Procs :
        /\ HasOpened(p, "w") =>
              modifications[p] > 0 /\ content[p] # original_content[p]
        /\ pc[p] \in {"write", "total", "exit0"} =>
              /\ HasOpened(p, "w") <=> modifications[p] > 0
              /\ modifications[p] > 0 <=> content[p] # original_content[p]
        /\ (Settled(p) /\ NonExemptOcc(original_content[p]) = {}) =>
              /\ ~HasOpened(p, "w")
              /\ file = seen[p]
              /\ count[p] = 0

\* a run ended without a write on a file whose occurrences are all exempt
C5_Witness ==
    \E p \in Procs :
        /\ pc[p] = "exit0"
        /\ ~HasOpened(p, "w")
        /\ Occurrences(original_content[p]) # {}

\* the index of s that the index q of t comes from, when t is s with a
\* logging line inserted at each index of P
Origin(P, q) ==
    q - Len(LoggingLine) * Cardinality({r \in P : r < q})

\* t is s with a logging line inserted at each index of P
InsertedAt(s, t, P) ==
    /\ \A q \in P : StartsWith(t, q, LoggingLine)
    /\ \A q \in P : \A r \in P : r < q => r + Len(LoggingLine) <= q
    /\ Len(t) = Len(s) + Len(LoggingLine) * Cardinality(P)
    /\ \A k \in 1..Len(s) :
          s[k] = t[k + Len(LoggingLine) * Cardinality({q \in P : Origin(P, q) <= k})]

SingleRun(bytes, sep) ==
    LET s == Decode(bytes, 1)
        r == ReSub(s)
    IN  IF r.text = s THEN bytes ELSE Encode(r.text, 1, sep)

\* the bytes the file held when invocation p was started: the second
\* invocation is started on what the first one left
FileBefore(p) ==
    IF p = 1 THEN initial ELSE SingleRun(initial, linesep)

\* C7: after a failure the file holds the complete original bytes or the
\* complete bytes of the transformed text
C7_AllOrNothing ==
    \A p \in Procs : pc[p] = "crash" =>
        \/ file = FileBefore(p)
        \/ file = SingleRun(FileBefore(p), linesep)

\* C8: without a path argument the usage message is printed, the status is
\* 1 and the file is never opened; an invocation that exits with status 0
\* had the argument and printed the summary, then the total
C8_UsageAndSummary ==
    \A p \in Procs :
        /\ (argc[p] < 2 /\ pc[p] # "main") =>
              /\ pc[p] = "exit1"
              /\ out[p] = << <<"usage">> >>
              /\ opens[p] = << >>
              /\ file = initial
        /\ pc[p] = "exit1" => argc[p] < 2
        /\ pc[p] = "total" =>
              out[p] \in { << <<"nochange">> >>, << <<"added", modifications[p]>> >> }
        /\ pc[p] = "exit0" =>
              /\ argc[p] >= 2
              /\ Len(out[p]) = 2
              /\ out[p][1] \in { <<"nochange">>, <<"added", count[p]>> }
              /\ out[p][2] = <<"total", count[p]>>

C8_Witness ==
    /\ pc[1] = "exit1"
    /\ out[1] = << <<"usage">> >>

\* C9 as stated: an occurrence is modified only when its header, console.error
\* line and res.status line are three consecutive lines
C9_StrictAdjacency ==
    \A p \in Procs : pc[p] = "cmp" =>
        LET s == original_content[p]
        IN  \A i \in NonExemptOcc(s) :
                CountOf(SubSeq(s, i, MatchAt(s, i).end - 1), "\n") = 2

\* the last index before g2 that holds the opening brace of the header
BraceOf(s, m) ==
    CHOOSE b \in m.start..(m.g2 - 1) :
        s[b] = "{" /\ \A k \in (b + 1)..(m.g2 - 1) : s[k] # "{"

\* C9 amended: in every occurrence the console.error line is a single line
\* directly followed by the res.status line, and only whitespace (blank
\* lines included) stands between the opening brace of the header and the
\* console.error line; no more insertions are made than there are occurrences
C9_Adjacency ==
    \A p \in Procs : pc[p] = "cmp" =>
        LET s == original_content[p]
        IN  /\ \A i \in Occurrences(s) :
                  LET m == MatchAt(s, i)
                  IN  /\ StartsWith(s, m.g2, LitConsole)
                      /\ s[m.g2 - 1] = "\n"
                      /\ CountOf(SubSeq(s, m.g2, m.g3 - 1), "\n") = 1
                      /\ s[m.g3 - 1] = "\n"
                      /\ StartsWith(s, m.g3, LitRes)
                      /\ \A k \in (BraceOf(s, m) + 1)..(m.g2 - 1) : s[k] \in Whitespace
            /\ modifications[p] <= Cardinality(Occurrences(s))

\* an occurrence with a blank line between header and console.error line
\* was modified
C9_Witness ==
    \E p \in Procs :
        /\ pc[p] = "cmp"
        /\ modifications[p] >= 1
        /\ \E i \in NonExemptOcc(original_content[p]) :
              LET m == MatchAt(original_content[p], i)
              IN  CountOf(SubSeq(original_content[p], BraceOf(original_content[p], m), m.g2 - 1), "\n") >= 2

====
